---- MODULE Spec2Model ----
(***************************************************************************)
(* Model of plotter_generator (src/src/main.rs, src/src/vec.rs): the       *)
(* Hilbert curve generator, the corner direction calculator and the two    *)
(* offset-line algorithms, computed in IEEE-754 binary32 arithmetic as the *)
(* Rust code computes them.                                                *)
(*                                                                         *)
(* An f32 is a record [k, s, m, e]: k is "fin", "inf" or "nan", s the sign *)
(* bit, and a finite value is m * 2^e with m = 0 (then e = 0) or           *)
(* 2^23 <= m < 2^24.  Every operation rounds to nearest, ties to even.     *)
(* The exponent is not limited: the magnitudes the inputs below reach stay *)
(* far inside the f32 exponent range, so no overflow or underflow occurs.  *)
(***************************************************************************)
EXTENDS Integers, Sequences, FiniteSets, TLC

VARIABLES pc, args, points, document, corner, direction, line, amount, offset_points

vars == <<pc, args, points, document, corner, direction, line, amount, offset_points>>

(***************************************************************************)
(* f32: the arithmetic of `x: f32`, `y: f32` (vec.rs:9-10).                *)
(***************************************************************************)
P24 == 2^24
P23 == 2^23
P22 == 2^22
P12 == 2^12

NaN == [k |-> "nan", s |-> 0, m |-> 0, e |-> 0]
Inf(s) == [k |-> "inf", s |-> s, m |-> 0, e |-> 0]
Zero(s) == [k |-> "fin", s |-> s, m |-> 0, e |-> 0]
Fin(s, m, e) == [k |-> "fin", s |-> s, m |-> m, e |-> e]

RECURSIVE BitLen(_)
BitLen(n) == IF n = 0 THEN 0 ELSE 1 + BitLen(n \div 2)

\* The f32 nearest to (-1)^s * (M + f) * 2^E, where 0 <= f < 1 and f > 0 iff
\* st; ties go to the even significand.  M < 2^31; when st holds M has at
\* least 25 bits.
Round(s, M, E, st) ==
    IF M = 0 THEN Zero(s)
    ELSE LET n == BitLen(M)
         IN IF n <= 24 THEN Fin(s, M * 2^(24 - n), E - (24 - n))
            ELSE LET sh == n - 24
                     q == M \div 2^sh
                     r == M % 2^sh
                     half == 2^(sh - 1)
                     up == r > half \/ (r = half /\ (st \/ q % 2 = 1))
                     q1 == IF up THEN q + 1 ELSE q
                 IN IF q1 = P24 THEN Fin(s, P23, E + sh + 1)
                    ELSE Fin(s, q1, E + sh)

\* An integer literal or integer-valued argument as an f32.
IntToF32(i) == IF i < 0 THEN Round(1, -i, 0, FALSE) ELSE Round(0, i, 0, FALSE)

F32Neg(x) == IF x.k = "nan" THEN NaN ELSE [x EXCEPT !.s = 1 - x.s]

F32Abs(x) == IF x.k = "nan" THEN NaN ELSE [x EXCEPT !.s = 0]

F32Add(x, y) ==
    IF x.k = "nan" \/ y.k = "nan" THEN NaN
    ELSE IF x.k = "inf" THEN (IF y.k = "inf" /\ y.s # x.s THEN NaN ELSE x)
    ELSE IF y.k = "inf" THEN y
    ELSE IF x.m = 0 THEN (IF y.m = 0 THEN Zero(IF x.s = 1 /\ y.s = 1 THEN 1 ELSE 0) ELSE y)
    ELSE IF y.m = 0 THEN x
    ELSE LET xBig == x.e > y.e \/ (x.e = y.e /\ x.m >= y.m)
             big == IF xBig THEN x ELSE y
             sml == IF xBig THEN y ELSE x
             d == big.e - sml.e
             X == big.m * 8
             Y == IF d <= 3 THEN sml.m * 2^(3 - d)
                  ELSE IF d >= 30 THEN 0 ELSE sml.m \div 2^(d - 3)
             st == IF d <= 3 THEN FALSE
                   ELSE IF d >= 30 THEN TRUE ELSE sml.m % 2^(d - 3) # 0
         IN IF big.s = sml.s THEN Round(big.s, X + Y, big.e - 3, st)
            ELSE LET D == X - Y - (IF st THEN 1 ELSE 0)
                 IN IF D = 0 /\ ~st THEN Zero(0) ELSE Round(big.s, D, big.e - 3, st)

F32Sub(x, y) == F32Add(x, F32Neg(y))

F32Mul(x, y) ==
    IF x.k = "nan" \/ y.k = "nan" THEN NaN
    ELSE LET s == (x.s + y.s) % 2
         IN IF x.k = "inf" \/ y.k = "inf"
            THEN (IF (x.k = "fin" /\ x.m = 0) \/ (y.k = "fin" /\ y.m = 0) THEN NaN ELSE Inf(s))
            ELSE IF x.m = 0 \/ y.m = 0 THEN Zero(s)
            ELSE LET xh == x.m \div P12
                     xl == x.m % P12
                     yh == y.m \div P12
                     yl == y.m % P12
                     mid == xh * yl + xl * yh
                     lo0 == xl * yl + (mid % P12) * P12
                     hi == xh * yh + (mid \div P12) + (lo0 \div P24)
                     lo == lo0 % P24
                 IN Round(s, hi * 4 + (lo \div P22), x.e + y.e + 22, lo % P22 # 0)

F32Div(x, y) ==
    IF x.k = "nan" \/ y.k = "nan" THEN NaN
    ELSE LET s == (x.s + y.s) % 2
         IN IF x.k = "inf" THEN (IF y.k = "inf" THEN NaN ELSE Inf(s))
            ELSE IF y.k = "inf" THEN Zero(s)
            ELSE IF y.m = 0 THEN (IF x.m = 0 THEN NaN ELSE Inf(s))
            ELSE IF x.m = 0 THEN Zero(s)
            ELSE LET d == y.m
                     q0 == x.m \div d
                     r0 == x.m % d
                     q1 == q0 * 128 + ((r0 * 128) \div d)
                     r1 == (r0 * 128) % d
                     q2 == q1 * 128 + ((r1 * 128) \div d)
                     r2 == (r1 * 128) % d
                     q3 == q2 * 128 + ((r2 * 128) \div d)
                     r3 == (r2 * 128) % d
                     q4 == q3 * 128 + ((r3 * 128) \div d)
                     r4 == (r3 * 128) % d
                 IN Round(s, q4, x.e - y.e - 28, r4 # 0)

\* Bit-pair square root: the pairs of N from pair i down to pair 0, then
\* 14 pairs of zeros; returns <<root, remainder>>.
RECURSIVE SqrtBits(_, _, _, _)
SqrtBits(N, i, rem, root) ==
    IF i < -14 THEN <<root, rem>>
    ELSE LET pair == IF i >= 0 THEN (N \div 4^i) % 4 ELSE 0
             r == rem * 4 + pair
             t == root * 4 + 1
         IN IF r >= t THEN SqrtBits(N, i - 1, r - t, root * 2 + 1)
            ELSE SqrtBits(N, i - 1, r, root * 2)

F32Sqrt(x) ==
    IF x.k = "nan" THEN NaN
    ELSE IF x.k = "fin" /\ x.m = 0 THEN x
    ELSE IF x.s = 1 THEN NaN
    ELSE IF x.k = "inf" THEN x
    ELSE LET odd == x.e % 2 = 1
             N == IF odd THEN x.m * 2 ELSE x.m
             e2 == IF odd THEN x.e - 1 ELSE x.e
             rr == SqrtBits(N, 12, 0, 0)
         IN Round(0, rr[1], (e2 \div 2) - 14, rr[2] # 0)

\* `==` on f32 (PartialEq): NaN equals nothing, -0.0 equals 0.0.
F32Eq(x, y) ==
    IF x.k = "nan" \/ y.k = "nan" THEN FALSE
    ELSE IF x.k = "fin" /\ y.k = "fin" /\ x.m = 0 /\ y.m = 0 THEN TRUE
    ELSE x = y

\* `<` on f32.
F32Lt(x, y) ==
    LET d == F32Sub(y, x)
    IN d.k # "nan" /\ d.s = 0 /\ (d.k = "inf" \/ d.m # 0)

F32Le(x, y) == F32Lt(x, y) \/ F32Eq(x, y)


(***************************************************************************)
(* Vec2 (vec.rs).                                                          *)
(***************************************************************************)
vec2(x, y) == [x |-> x, y |-> y]

ZERO == vec2(Zero(0), Zero(0))

add(u, v) == vec2(F32Add(u.x, v.x), F32Add(u.y, v.y))

sub(u, v) == vec2(F32Sub(u.x, v.x), F32Sub(u.y, v.y))

neg(u) == vec2(F32Neg(u.x), F32Neg(u.y))

div(u, rhs) == vec2(F32Div(u.x, rhs), F32Div(u.y, rhs))

mul(u, rhs) == vec2(F32Mul(u.x, rhs), F32Mul(u.y, rhs))

\* x.powi(2)
powi2(x) == F32Mul(x, x)

len(u) == F32Sqrt(F32Add(powi2(u.x), powi2(u.y)))

normalize(u) == div(u, len(u))

\* #[derive(PartialEq)] on Vec2: both components equal as f32.
Vec2Eq(u, v) == F32Eq(u.x, v.x) /\ F32Eq(u.y, v.y)

(***************************************************************************)
(* The f32 literals of main.rs.                                            *)
(***************************************************************************)
One == IntToF32(1)
Two == IntToF32(2)
Half == Fin(0, P23, -24)

\* A decimal literal num/den with 0 < num < den: the nearest f32, as rustc
\* parses it.  Binary long division to 26 significant bits and a sticky bit.
RECURSIVE DecimalBits(_, _, _, _)
DecimalBits(r, den, q, k) ==
    IF q >= 2^25 THEN Round(0, q, -k, r # 0)
    ELSE LET r2 == r * 2
         IN IF r2 >= den THEN DecimalBits(r2 - den, den, q * 2 + 1, k + 1)
            ELSE DecimalBits(r2, den, q * 2, k + 1)

decimal_f32(num, den) == DecimalBits(num, den, 0, 0)

\* 0.70710677 (main.rs:245)
Lit_0_70710677 == decimal_f32(70710677, 100000000)

(***************************************************************************)
(* Faulty variants of hilbert_curve (main.rs:192-217), each departing from *)
(* it in one place.                                                        *)
(***************************************************************************)
\* The third quadrant is not appended.
RECURSIVE hilbert_curve_dropped(_, _, _, _)
hilbert_curve_dropped(p, x_vec, y_vec, n) ==
    LET half_x == div(x_vec, Two)
        half_y == div(y_vec, Two)
    IN IF n = 0 THEN <<add(add(p, half_x), half_y)>>
       ELSE hilbert_curve_dropped(p, half_y, half_x, n - 1)
            \o hilbert_curve_dropped(add(p, half_x), half_x, half_y, n - 1)
            \o hilbert_curve_dropped(add(add(p, half_x), y_vec), neg(half_y), neg(half_x), n - 1)

\* The second and third quadrants are appended in the other order.
RECURSIVE hilbert_curve_reordered(_, _, _, _)
hilbert_curve_reordered(p, x_vec, y_vec, n) ==
    LET half_x == div(x_vec, Two)
        half_y == div(y_vec, Two)
    IN IF n = 0 THEN <<add(add(p, half_x), half_y)>>
       ELSE hilbert_curve_reordered(p, half_y, half_x, n - 1)
            \o hilbert_curve_reordered(add(add(p, half_x), half_y), half_x, half_y, n - 1)
            \o hilbert_curve_reordered(add(p, half_x), half_x, half_y, n - 1)
            \o hilbert_curve_reordered(add(add(p, half_x), y_vec), neg(half_y), neg(half_x), n - 1)

\* The first quadrant is entered without swapping the axes.
RECURSIVE hilbert_curve_unswapped(_, _, _, _)
hilbert_curve_unswapped(p, x_vec, y_vec, n) ==
    LET half_x == div(x_vec, Two)
        half_y == div(y_vec, Two)
    IN IF n = 0 THEN <<add(add(p, half_x), half_y)>>
       ELSE hilbert_curve_unswapped(p, half_x, half_y, n - 1)
            \o hilbert_curve_unswapped(add(p, half_x), half_x, half_y, n - 1)
            \o hilbert_curve_unswapped(add(add(p, half_x), half_y), half_x, half_y, n - 1)
            \o hilbert_curve_unswapped(add(add(p, half_x), y_vec), neg(half_y), neg(half_x), n - 1)

\* The last quadrant is entered with its axes swapped but not negated, from
\* the corner the negated axes need.
RECURSIVE hilbert_curve_unnegated(_, _, _, _)
hilbert_curve_unnegated(p, x_vec, y_vec, n) ==
    LET half_x == div(x_vec, Two)
        half_y == div(y_vec, Two)
    IN IF n = 0 THEN <<add(add(p, half_x), half_y)>>
       ELSE hilbert_curve_unnegated(p, half_y, half_x, n - 1)
            \o hilbert_curve_unnegated(add(p, half_x), half_x, half_y, n - 1)
            \o hilbert_curve_unnegated(add(add(p, half_x), half_y), half_x, half_y, n - 1)
            \o hilbert_curve_unnegated(add(add(p, half_x), y_vec), half_y, half_x, n - 1)

\* The last quadrant is entered without swapping the (negated) axes.
RECURSIVE hilbert_curve_mirrored(_, _, _, _)
hilbert_curve_mirrored(p, x_vec, y_vec, n) ==
    LET half_x == div(x_vec, Two)
        half_y == div(y_vec, Two)
    IN IF n = 0 THEN <<add(add(p, half_x), half_y)>>
       ELSE hilbert_curve_mirrored(p, half_y, half_x, n - 1)
            \o hilbert_curve_mirrored(add(p, half_x), half_x, half_y, n - 1)
            \o hilbert_curve_mirrored(add(add(p, half_x), half_y), half_x, half_y, n - 1)
            \o hilbert_curve_mirrored(add(add(p, half_x), y_vec), neg(half_x), neg(half_y), n - 1)

(***************************************************************************)
(* hilbert_curve (main.rs:192-217).                                        *)
(***************************************************************************)
RECURSIVE hilbert_curve(_, _, _, _)
hilbert_curve(p, x_vec, y_vec, n) ==
    LET half_x == div(x_vec, Two)
        half_y == div(y_vec, Two)
    IN IF n = 0 THEN <<add(add(p, half_x), half_y)>>
       ELSE hilbert_curve(p, half_y, half_x, n - 1)
            \o hilbert_curve(add(p, half_x), half_x, half_y, n - 1)
            \o hilbert_curve(add(add(p, half_x), half_y), half_x, half_y, n - 1)
            \o hilbert_curve(add(add(p, half_x), y_vec), neg(half_y), neg(half_x), n - 1)

(***************************************************************************)
(* direction_of_corner (main.rs:219-234): Option<Vec2>.                    *)
(***************************************************************************)
None == [tag |-> "None", val |-> ZERO]
Some(v) == [tag |-> "Some", val |-> v]

direction_of_corner(a, b, c) ==
    LET ba == normalize(sub(a, b))
        bc == normalize(sub(c, b))
        dir == add(ba, bc)
    IN IF Vec2Eq(dir, ZERO) THEN None ELSE Some(normalize(dir))

(***************************************************************************)
(* wonky_offset_line (main.rs:119-132): tuple_windows yields the windows   *)
(* (points[i], points[i+1], points[i+2]) in order, none when there are     *)
(* fewer than three points.                                                *)
(***************************************************************************)
\* The loop over the windows first..last, in order; the range is halved to
\* keep the evaluation shallow on long lines.
RECURSIVE WonkyWindows(_, _, _, _)
WonkyWindows(pts, amt, first, last) ==
    IF first > last THEN <<>>
    ELSE IF first = last
    THEN LET direction_found == direction_of_corner(pts[first], pts[first + 1], pts[first + 2])
         IN IF direction_found.tag = "Some"
            THEN <<add(pts[first + 1], mul(direction_found.val, amt))>>
            ELSE <<>>
    ELSE LET middle == (first + last) \div 2
         IN WonkyWindows(pts, amt, first, middle) \o WonkyWindows(pts, amt, middle + 1, last)

\* Faulty variants: the last window is never visited; the corner is pushed
\* against its direction.
wonky_offset_line_short(pts, amt) == WonkyWindows(pts, amt, 1, Len(pts) - 3)

wonky_offset_line_outward(pts, amt) == WonkyWindows(pts, F32Neg(amt), 1, Len(pts) - 2)

wonky_offset_line(pts, amt) == WonkyWindows(pts, amt, 1, Len(pts) - 2)

(***************************************************************************)
(* offset_line (main.rs:153-171).                                          *)
(***************************************************************************)
\* vec2(ab.y, -ab.x)
perp(u) == vec2(u.y, F32Neg(u.x))

\* (1.0 + ab_90.x * bc_90.x + ab_90.y * bc_90.y) / 2.0
half_cos(ab_90, bc_90) ==
    F32Div(F32Add(F32Add(One, F32Mul(ab_90.x, bc_90.x)), F32Mul(ab_90.y, bc_90.y)), Two)

\* `length` of main.rs:165
miter_length(a, b, c, offset) ==
    LET ab_90 == perp(normalize(sub(b, a)))
        bc_90 == perp(normalize(sub(c, b)))
    IN F32Div(offset, F32Sqrt(half_cos(ab_90, bc_90)))

\* Faulty variant: the bisector is followed for `offset` itself, without the
\* miter correction.
offset_point_uncorrected(a, b, c, offset) ==
    LET ab_90 == perp(normalize(sub(b, a)))
        bc_90 == perp(normalize(sub(c, b)))
        bisector == normalize(add(ab_90, bc_90))
    IN add(b, mul(bisector, offset))

offset_point(a, b, c, offset) ==
    LET ab == normalize(sub(b, a))
        bc == normalize(sub(c, b))
        ab_90 == perp(ab)
        bc_90 == perp(bc)
        bisector == normalize(add(ab_90, bc_90))
        length == F32Div(offset, F32Sqrt(half_cos(ab_90, bc_90)))
    IN add(b, mul(bisector, length))

\* One point per window, in order.
offset_line(pts, offset) ==
    [i \in 1..(Len(pts) - 2) |-> offset_point(pts[i], pts[i + 1], pts[i + 2], offset)]


(***************************************************************************)
(* points_to_path (main.rs:173-189) and Document::add: a path is the       *)
(* sequence of its drawing commands, move_to for index 0 and line_to for   *)
(* the rest; a document is its viewBox and the paths added, in order.      *)
(***************************************************************************)
points_to_path(pts) ==
    [index \in 1..Len(pts) |->
        [cmd |-> IF index = 1 THEN "move_to" ELSE "line_to",
         x |-> pts[index].x, y |-> pts[index].y]]

document_add(doc, path) == [doc EXCEPT !.paths = Append(@, path)]

\* The points a path draws through.
path_points(path) == [index \in 1..Len(path) |-> vec2(path[index].x, path[index].y)]

(***************************************************************************)
(* Bounds of the model and the program's constants.                        *)
(***************************************************************************)
\* Canvas sides 1..MaxSide besides the default.
MaxSide == 2
\* `iterations` ranges over 0..MaxIterations.
MaxIterations == 3
\* `offset` of WonkyHilbert ranges over 1.0 .. MaxOffset.
MaxOffset == 1
\* default_value_t of width and of height
DefaultWidth == 100
DefaultHeight == 100

Widths == {IntToF32(k) : k \in (1..MaxSide) \cup {DefaultWidth}}
Heights == {IntToF32(k) : k \in (1..MaxSide) \cup {DefaultHeight}}
WonkyOffsets == {IntToF32(k) : k \in 1..MaxOffset}

\* Args as clap parses them (main.rs:20-52).
ArgsSet ==
    [width : Widths, height : Heights, command : {"WonkyHilbert"},
     iterations : 0..MaxIterations, offset : WonkyOffsets]
    \cup
    [width : Widths, height : Heights, command : {"Hilbert"},
     iterations : 0..MaxIterations, offset : {Zero(0)}]

NoVec == <<>>

(***************************************************************************)
(* The program: main (main.rs:54-93) up to svg::save.                      *)
(*   pc = "main"     Args parsed, document created (main.rs:65-74)         *)
(*   pc = "curve"    the curve generated and added (main.rs:101-108,       *)
(*                   135-142)                                              *)
(*   pc = "offset1"  the first offset line added (main.rs:110-111,144-145) *)
(*   pc = "done"     the second offset line added (main.rs:113-114,147-148)*)
(***************************************************************************)
size == vec2(args.width, args.height)

Init ==
    /\ pc = "main"
    /\ args \in ArgsSet
    /\ points = <<>>
    /\ offset_points = <<>>
    /\ document = [viewBox |-> <<Zero(0), Zero(0), args.width, args.height>>, paths |-> <<>>]
    /\ corner = NoVec
    /\ direction = None
    /\ line = <<>>
    /\ amount = Zero(0)

\* let points = hilbert_curve(vec2(0.0, 0.0), vec2(size.x, 0.0), vec2(0.0, size.y), iterations);
\* document = document.add(points_to_path(&points));
GenerateCurve ==
    /\ pc = "main"
    /\ points' = hilbert_curve(vec2(Zero(0), Zero(0)), vec2(size.x, Zero(0)),
                               vec2(Zero(0), size.y), args.iterations)
    /\ document' = document_add(document, points_to_path(points'))
    /\ pc' = "curve"
    /\ UNCHANGED <<args, offset_points, corner, direction, line, amount>>

\* wonky_triple_hilbert_curve: wonky_offset_line(&points, offset)
WonkyFirstOffset ==
    /\ pc = "curve"
    /\ args.command = "WonkyHilbert"
    /\ offset_points' = wonky_offset_line(points, args.offset)
    /\ document' = document_add(document, points_to_path(offset_points'))
    /\ pc' = "offset1"
    /\ UNCHANGED <<args, points, corner, direction, line, amount>>

\* wonky_triple_hilbert_curve: wonky_offset_line(&points, -offset)
WonkySecondOffset ==
    /\ pc = "offset1"
    /\ args.command = "WonkyHilbert"
    /\ offset_points' = wonky_offset_line(points, F32Neg(args.offset))
    /\ document' = document_add(document, points_to_path(offset_points'))
    /\ pc' = "done"
    /\ UNCHANGED <<args, points, corner, direction, line, amount>>

\* hilbert_curve_path: offset_line(&points, 0.5)
HilbertFirstOffset ==
    /\ pc = "curve"
    /\ args.command = "Hilbert"
    /\ offset_points' = offset_line(points, Half)
    /\ document' = document_add(document, points_to_path(offset_points'))
    /\ pc' = "offset1"
    /\ UNCHANGED <<args, points, corner, direction, line, amount>>

\* hilbert_curve_path: offset_line(&points, -0.5)
HilbertSecondOffset ==
    /\ pc = "offset1"
    /\ args.command = "Hilbert"
    /\ offset_points' = offset_line(points, F32Neg(Half))
    /\ document' = document_add(document, points_to_path(offset_points'))
    /\ pc' = "done"
    /\ UNCHANGED <<args, points, corner, direction, line, amount>>

Next ==
    \/ GenerateCurve
    \/ WonkyFirstOffset
    \/ WonkySecondOffset
    \/ HilbertFirstOffset
    \/ HilbertSecondOffset

Spec == Init /\ [][Next]_vars


(***************************************************************************)
(* Claims about hilbert_curve, checked on the curve main generates.        *)
(***************************************************************************)
\* hilbert_curve has returned its points, which no later step changes.
CurveGenerated == pc = "curve"

\* The cells of the 2^d by 2^d grid over the canvas, d = iterations.
cells_per_side == 2^args.iterations
cell_width == F32Div(args.width, IntToF32(cells_per_side))
cell_height == F32Div(args.height, IntToF32(cells_per_side))

\* Euclidean distance as the program measures lengths.
distance(p, q) == len(sub(q, p))

\* The index k in 0..cells_per_side-1 of the cell whose centre coordinate,
\* k * side + side / 2, is v; -1 when v is no cell centre.
cell_index(v, side) ==
    LET ks == {k \in 0..(cells_per_side - 1) :
                  F32Eq(v, F32Add(F32Mul(side, IntToF32(k)), F32Div(side, Two)))}
    IN IF ks = {} THEN -1 ELSE CHOOSE k \in ks : TRUE

cell_of(p) == <<cell_index(p.x, cell_width), cell_index(p.y, cell_height)>>

abs(i) == IF i < 0 THEN -i ELSE i

\* C1: for every depth d >= 0 the curve has exactly 4^d points (1 at depth 0).
C1_Length == CurveGenerated => Len(points) = 4^args.iterations

C1_Witness == pc = "curve" /\ args.iterations = 2 /\ Len(points) = 16

\* C2: hilbert_curve((0,0),(100,0),(0,100),1) is (25,25), (75,25), (75,75),
\* (25,75), the quadrant centres in the order of the four recursive calls.
C2_Golden ==
    (/\ CurveGenerated
     /\ args.width = IntToF32(100)
     /\ args.height = IntToF32(100)
     /\ args.iterations = 1)
    => points = <<vec2(IntToF32(25), IntToF32(25)), vec2(IntToF32(75), IntToF32(25)),
                  vec2(IntToF32(75), IntToF32(75)), vec2(IntToF32(25), IntToF32(75))>>

C2_Witness ==
    /\ pc = "curve"
    /\ args.width = IntToF32(100)
    /\ args.height = IntToF32(100)
    /\ args.iterations = 1
    /\ Len(points) = 4
    /\ points[4] = vec2(IntToF32(25), IntToF32(75))

\* C3 as stated: at depth d >= 1 every two consecutive points are at a
\* distance equal to one cell's diagonal.
C3_Diagonal ==
    (CurveGenerated /\ args.iterations >= 1)
    => \A i \in 1..(Len(points) - 1) :
          F32Eq(distance(points[i], points[i + 1]), len(vec2(cell_width, cell_height)))

\* C3 as amended: at depth d >= 1 every two consecutive points are at a
\* distance equal to one cell's side: one cell width apart along x (same y)
\* or one cell height apart along y (same x).
C3_CellSide ==
    (CurveGenerated /\ args.iterations >= 1)
    => \A i \in 1..(Len(points) - 1) :
          \/ /\ F32Eq(points[i].y, points[i + 1].y)
             /\ F32Eq(distance(points[i], points[i + 1]), cell_width)
          \/ /\ F32Eq(points[i].x, points[i + 1].x)
             /\ F32Eq(distance(points[i], points[i + 1]), cell_height)

C3_Witness ==
    /\ pc = "curve"
    /\ args.iterations = 2
    /\ args.width # args.height
    /\ \E i \in 1..(Len(points) - 1) :
          F32Eq(distance(points[i], points[i + 1]), cell_width)
    /\ \E i \in 1..(Len(points) - 1) :
          F32Eq(distance(points[i], points[i + 1]), cell_height)

\* Consecutive points are centres of cells that share an edge.
adjacent_cells(p, q) ==
    LET cp == cell_of(p)
        cq == cell_of(q)
    IN /\ cp[1] >= 0 /\ cp[2] >= 0 /\ cq[1] >= 0 /\ cq[2] >= 0
       /\ abs(cp[1] - cq[1]) + abs(cp[2] - cq[2]) = 1

\* C4 as stated: at depth d >= 1 consecutive points are centres of
\* adjacent cells and never farther apart than one cell width.
C4_CellWidth ==
    (CurveGenerated /\ args.iterations >= 1)
    => \A i \in 1..(Len(points) - 1) :
          /\ adjacent_cells(points[i], points[i + 1])
          /\ F32Le(distance(points[i], points[i + 1]), cell_width)

\* C4 as amended: at depth d >= 1 consecutive points are centres of cells
\* sharing an edge, across the sub-quadrant boundaries too, and never
\* farther apart than the longer cell side (the cell width when the canvas
\* is square or wide, the cell height when it is tall).
C4_Adjacent ==
    (CurveGenerated /\ args.iterations >= 1)
    => \A i \in 1..(Len(points) - 1) :
          /\ adjacent_cells(points[i], points[i + 1])
          /\ F32Le(distance(points[i], points[i + 1]),
                   IF F32Lt(cell_width, cell_height) THEN cell_height ELSE cell_width)

\* A tall canvas at depth 2: the step across the boundary between the
\* second and the third sub-quadrant is one cell height, more than a width.
C4_Witness ==
    /\ pc = "curve"
    /\ args.iterations = 2
    /\ F32Lt(args.width, args.height)
    /\ cell_of(points[8]) = <<2, 1>>
    /\ cell_of(points[9]) = <<2, 2>>
    /\ F32Lt(cell_width, distance(points[8], points[9]))

\* C5: the curve never revisits a point: its 4^d points are pairwise
\* distinct, one per cell of the grid, each cell centre emitted once.
C5_Distinct ==
    CurveGenerated
    => /\ \A i, j \in 1..Len(points) : i < j => ~Vec2Eq(points[i], points[j])
       /\ {cell_of(points[i]) : i \in 1..Len(points)}
          = (0..(cells_per_side - 1)) \X (0..(cells_per_side - 1))

C5_Witness ==
    /\ pc = "curve"
    /\ args.iterations = 3
    /\ Cardinality({points[i] : i \in 1..Len(points)}) = 64


(***************************************************************************)
(* Claims about the offsets wonky_triple_hilbert_curve adds.               *)
(***************************************************************************)
\* Cross product of two vectors, in f32, and the sign of an f32.
cross(u, v) == F32Sub(F32Mul(u.x, v.y), F32Mul(u.y, v.x))
sign(v) == IF v.k = "fin" /\ v.m = 0 THEN 0 ELSE IF v.s = 1 THEN -1 ELSE 1

\* Which way the path turns at b, and on which side of the direction of
\* traversal a -> b the point out lies: 1 and -1 for the two sides, 0 for
\* straight on.
turn(a, b, c) == sign(cross(sub(b, a), sub(c, b)))
side(a, b, out) == sign(cross(sub(b, a), sub(out, b)))

\* The indices of the windows of pts at which wonky_offset_line emits a
\* point, in order: the k-th emitted point belongs to the k-th of them.
emitting_windows(pts) ==
    LET emits(i) == direction_of_corner(pts[i], pts[i + 1], pts[i + 2]).tag = "Some"
    IN SelectSeq([i \in 1..(Len(pts) - 2) |-> i], emits)

\* The sides on which the emitted points out lie at their corners of pts.
sides(pts, out) ==
    LET w == emitting_windows(pts)
    IN {side(pts[w[k]], pts[w[k] + 1], out[k]) : k \in 1..Len(out)}

\* Every emitted point lies on the side the path turns towards at its
\* corner when amt > 0, on the opposite side when amt < 0.
inside_every_corner(pts, out, amt) ==
    LET w == emitting_windows(pts)
    IN /\ Len(out) = Len(w)
       /\ \A k \in 1..Len(out) :
             /\ turn(pts[w[k]], pts[w[k] + 1], pts[w[k] + 2]) # 0
             /\ side(pts[w[k]], pts[w[k] + 1], out[k])
                = sign(amt) * turn(pts[w[k]], pts[w[k] + 1], pts[w[k] + 2])

WonkyDeep == args.command = "WonkyHilbert" /\ args.iterations >= 2

\* C10 as stated: on the curve of depth >= 2, for a fixed sign of the
\* distance every point wonky_offset_line emits lies on the same side of the
\* path, and negating the distance puts every point on the other side.
C10_SameSide ==
    /\ (pc = "offset1" /\ WonkyDeep)
       => Cardinality(sides(points, offset_points)) = 1
    /\ (pc = "done" /\ WonkyDeep)
       => \E s \in {-1, 1} :
             /\ sides(points, path_points(document.paths[2])) = {s}
             /\ sides(points, offset_points) = {-s}

\* C10 as amended: the sign of the distance selects the side of each corner,
\* not of the curve: for a positive distance every emitted point lies on the
\* side the path turns towards at its corner (inside the corner), for the
\* negated distance on the opposite side (outside the corner).
C10_InsideCorner ==
    /\ (pc = "offset1" /\ WonkyDeep)
       => inside_every_corner(points, offset_points, args.offset)
    /\ (pc = "done" /\ WonkyDeep)
       => /\ inside_every_corner(points, path_points(document.paths[2]), args.offset)
          /\ inside_every_corner(points, offset_points, F32Neg(args.offset))

\* The curve of depth 2 turns both ways, so the first offset lies on both
\* sides of it, and so does the second.
C10_Witness ==
    /\ pc = "done"
    /\ args.command = "WonkyHilbert"
    /\ args.iterations = 2
    /\ sides(points, path_points(document.paths[2])) = {-1, 1}
    /\ sides(points, offset_points) = {-1, 1}


(***************************************************************************)
(* Input points of the calls made outside main (the unit tests of          *)
(* main.rs:241-253 call direction_of_corner directly; the functions take   *)
(* any &[Vec2]).  A coordinate is given exactly as i + j * 2^-21 by the    *)
(* record [i, j]: a small integer i, or one pushed j units in the last     *)
(* place of an f32 in [4, 8).                                              *)
(***************************************************************************)
\* Grid coordinates range over 0..MaxCoord.
MaxCoord == 4
\* Lines of up to MaxLen points, with x in 0..MaxX and y in 0..1.
MaxLen == 3
MaxX == 2

P21 == 2^21

coord(i, j) == [i |-> i, j |-> j]

\* The f32 a coordinate denotes (it is representable: no rounding).
coord_f32(c) ==
    LET n == c.i * P21 + c.j
    IN IF n < 0 THEN Round(1, -n, -21, FALSE) ELSE Round(0, n, -21, FALSE)

point_vec2(p) == vec2(coord_f32(p.x), coord_f32(p.y))

line_vec2(ps) == [index \in 1..Len(ps) |-> point_vec2(ps[index])]

\* Exact arithmetic on coordinates: a value A + B * 2^-21 + C * 2^-42 with
\* small integers A, B, C is the triple <<A, B, C>>; its sign is the sign of
\* its first non-zero entry.
coord_sub(c, d) == coord(c.i - d.i, c.j - d.j)
coord_mul(c, d) == <<c.i * d.i, c.i * d.j + c.j * d.i, c.j * d.j>>
exact_sub(u, v) == <<u[1] - v[1], u[2] - v[2], u[3] - v[3]>>
exact_add(u, v) == <<u[1] + v[1], u[2] + v[2], u[3] + v[3]>>
exact_sign(u) ==
    LET first == IF u[1] # 0 THEN u[1] ELSE IF u[2] # 0 THEN u[2] ELSE u[3]
    IN IF first > 0 THEN 1 ELSE IF first < 0 THEN -1 ELSE 0

\* Sign of the cross product (q - p) x (r - p) and of the dot product
\* (q - p) . (r - p), exactly.
cross_sign(p, q, r) ==
    exact_sign(exact_sub(coord_mul(coord_sub(q.x, p.x), coord_sub(r.y, p.y)),
                         coord_mul(coord_sub(q.y, p.y), coord_sub(r.x, p.x))))
dot_sign(p, q, r) ==
    exact_sign(exact_add(coord_mul(coord_sub(q.x, p.x), coord_sub(r.x, p.x)),
                         coord_mul(coord_sub(q.y, p.y), coord_sub(r.y, p.y))))

pairwise_distinct(a, b, c) == a # b /\ b # c /\ a # c
collinear(a, b, c) == cross_sign(b, a, c) = 0
\* a, b, c on one line with b strictly between a and c.
straight_through(a, b, c) ==
    pairwise_distinct(a, b, c) /\ collinear(a, b, c) /\ dot_sign(b, a, c) < 0

GridCoords == {coord(i, 0) : i \in 0..MaxCoord}
\* The f32 next above 4.0.
NextAboveFour == coord(4, 1)
CornerPoints == [x : GridCoords, y : GridCoords \cup {NextAboveFour}]

int_point(x, y) == [x |-> coord(x, 0), y |-> coord(y, 0)]

\* The corners of the unit tests direction_of_corner_90_degrees and
\* direction_of_corner_180_degrees.
TestCorners ==
    {<<int_point(0, 0), int_point(10, 0), int_point(10, 5)>>,
     <<int_point(0, 0), int_point(10, 0), int_point(20, 0)>>}

(***************************************************************************)
(* A call of direction_of_corner(a, b, c).                                 *)
(***************************************************************************)
InitCorner ==
    /\ pc = "corner_call"
    /\ corner \in (CornerPoints \X CornerPoints \X CornerPoints) \cup TestCorners
    /\ direction = None
    /\ args = <<>>
    /\ points = <<>>
    /\ offset_points = <<>>
    /\ document = <<>>
    /\ line = <<>>
    /\ amount = Zero(0)

CallDirectionOfCorner ==
    /\ pc = "corner_call"
    /\ direction' = direction_of_corner(point_vec2(corner[1]), point_vec2(corner[2]),
                                        point_vec2(corner[3]))
    /\ pc' = "corner_return"
    /\ UNCHANGED <<args, points, document, corner, line, amount, offset_points>>

NextCorner == CallDirectionOfCorner

SpecCorner == InitCorner /\ [][NextCorner]_vars

(***************************************************************************)
(* Claims about direction_of_corner.                                       *)
(***************************************************************************)
CornerReturned == pc = "corner_return"
corner_a == point_vec2(corner[1])
corner_b == point_vec2(corner[2])
corner_c == point_vec2(corner[3])

\* Dot product of two vectors, in f32.
dot(u, v) == F32Add(F32Mul(u.x, v.x), F32Mul(u.y, v.y))

\* 2^-20 and 2^-16: what a handful of f32 roundings of values near 1 can
\* amount to, with room to spare.
Tolerance == Fin(0, P23, -43)
WideTolerance == Fin(0, P23, -39)

\* v within tol of w.
within(v, w, tol) == F32Le(F32Abs(F32Sub(v, w)), tol)

\* u . v is positive, or negative by no more than rounding explains.
not_negative_dot(u, v) ==
    F32Le(F32Neg(F32Mul(Tolerance, F32Add(F32Abs(v.x), F32Abs(v.y)))), dot(u, v))

\* The legs at b are parallel to the axes and perpendicular to each other.
axis_aligned_right_angle(a, b, c) ==
    \/ a.y = b.y /\ b.x = c.x /\ a.x # b.x /\ b.y # c.y
    \/ a.x = b.x /\ b.y = c.y /\ a.y # b.y /\ b.x # c.x

\* C6: direction_of_corner(a, b, c) is None for every triple of pairwise
\* distinct points on one straight line with b between a and c.
C6_StraightIsNone ==
    (CornerReturned /\ straight_through(corner[1], corner[2], corner[3]))
    => direction = None

\* C7: for pairwise distinct a, b, c that are not a straight line through b,
\* direction_of_corner(a, b, c) is Some(u) with u of unit length, bisecting
\* the angle at b (it makes the same angle with both legs), pointing to the
\* side of a and of c (no negative dot product with a - b or c - b); at a
\* right angle with axis-aligned legs both components have magnitude
\* 0.70710677.  Every comparison allows for the rounding of f32.
C7_Bisector ==
    (/\ CornerReturned
     /\ pairwise_distinct(corner[1], corner[2], corner[3])
     /\ ~straight_through(corner[1], corner[2], corner[3]))
    => /\ direction.tag = "Some"
       /\ LET u == direction.val
              ba == sub(corner_a, corner_b)
              bc == sub(corner_c, corner_b)
          IN /\ within(len(u), One, Tolerance)
             /\ not_negative_dot(u, ba)
             /\ not_negative_dot(u, bc)
             /\ within(dot(u, normalize(ba)), dot(u, normalize(bc)), WideTolerance)
             /\ axis_aligned_right_angle(corner[1], corner[2], corner[3])
                => /\ F32Abs(u.x) = Lit_0_70710677
                   /\ F32Abs(u.y) = Lit_0_70710677

(***************************************************************************)
(* A call of wonky_offset_line(line, amount) or offset_line(line, amount)  *)
(* with the amounts main passes: the default offset 1.0 and its negation   *)
(* (main.rs:43, 110, 113), and 0.5 and -0.5 (main.rs:144, 147).            *)
(***************************************************************************)
LinePoints == {int_point(x, y) : x \in 0..MaxX, y \in 0..1}

RECURSIVE LinesOfLen(_)
LinesOfLen(n) ==
    IF n = 0 THEN {<<>>}
    ELSE {Append(l, p) : l \in LinesOfLen(n - 1), p \in LinePoints}

Lines == UNION {LinesOfLen(n) : n \in 0..MaxLen}

Amounts == {One, F32Neg(One), Half, F32Neg(Half)}

InitOffset ==
    /\ pc = "offset_call"
    /\ line \in Lines
    /\ amount \in Amounts
    /\ offset_points = <<>>
    /\ args = <<>>
    /\ points = <<>>
    /\ document = <<>>
    /\ corner = NoVec
    /\ direction = None

CallWonkyOffsetLine ==
    /\ pc = "offset_call"
    /\ offset_points' = wonky_offset_line(line_vec2(line), amount)
    /\ pc' = "wonky_return"
    /\ UNCHANGED <<args, points, document, corner, direction, line, amount>>

CallOffsetLine ==
    /\ pc = "offset_call"
    /\ offset_points' = offset_line(line_vec2(line), amount)
    /\ pc' = "offset_return"
    /\ UNCHANGED <<args, points, document, corner, direction, line, amount>>

NextOffset == CallWonkyOffsetLine \/ CallOffsetLine

SpecOffset == InitOffset /\ [][NextOffset]_vars

(***************************************************************************)
(* Claims about wonky_offset_line and offset_line.                         *)
(***************************************************************************)
WonkyReturned == pc = "wonky_return"
OffsetReturned == pc = "offset_return"

\* The windows (a, b, c) of tuple_windows, by the index of a.
windows(l) == 1..(Len(l) - 2)

saturating_sub(n, k) == IF n >= k THEN n - k ELSE 0

no_three_collinear(l) ==
    \A i \in windows(l) : ~collinear(l[i], l[i + 1], l[i + 2])

\* The windows at which direction_of_corner returns a direction.
corner_windows(pts) ==
    {i \in windows(pts) : direction_of_corner(pts[i], pts[i + 1], pts[i + 2]).tag = "Some"}

\* C8 as stated: for a line of any length, the 0-, 1- and 2-point lines
\* included, wonky_offset_line(line, d) has length <= len(line) - 2, with
\* equality whenever no three consecutive points are collinear.
C8_LenMinusTwo ==
    WonkyReturned
    => /\ Len(offset_points) <= Len(line) - 2
       /\ no_three_collinear(line) => Len(offset_points) = Len(line) - 2

\* C8 as amended: wonky_offset_line(line, d) has length
\* <= max(len(line) - 2, 0), so it is empty for the 0-, 1- and 2-point
\* lines; it has one point per window at which direction_of_corner returns
\* a direction, so equality holds whenever that is every window, as it is
\* when no three consecutive points are collinear.
C8_Saturating ==
    WonkyReturned
    => /\ Len(offset_points) <= saturating_sub(Len(line), 2)
       /\ Len(offset_points) = Cardinality(corner_windows(line_vec2(line)))
       /\ no_three_collinear(line)
          => Len(offset_points) = saturating_sub(Len(line), 2)

\* A line of three points at a corner yields its one point.
C8_Witness ==
    /\ WonkyReturned
    /\ Len(line) = 3
    /\ no_three_collinear(line)
    /\ Len(offset_points) = 1

\* The path turns back on itself at b.
reversal(a, b, c) == collinear(a, b, c) /\ dot_sign(b, a, c) > 0

\* A straight run along one of the axes.
axis_parallel(a, b, c) ==
    \/ a.x = b.x /\ b.x = c.x
    \/ a.y = b.y /\ b.y = c.y

\* The windows C9 speaks of.
offset_windows(l) ==
    {i \in windows(l) : /\ pairwise_distinct(l[i], l[i + 1], l[i + 2])
                        /\ ~reversal(l[i], l[i + 1], l[i + 2])}

\* (out - b) . (ab.y, -ab.x), the signed distance of out from the line
\* through a and b, ab being the unit vector from a to b.
perpendicular_distance(out, a, b) == dot(sub(out, b), perp(normalize(sub(b, a))))

\* v is within 2^-20 * |d| / ((1 + ab_90 . bc_90) / 2) of d.
within_rounding(v, d, a, b, c) ==
    LET ab_90 == perp(normalize(sub(b, a)))
        bc_90 == perp(normalize(sub(c, b)))
    IN F32Le(F32Mul(F32Abs(F32Sub(v, d)), half_cos(ab_90, bc_90)),
             F32Mul(Tolerance, F32Abs(d)))

====
